---- MODULE Spec2Model ----
(***************************************************************************)
(* A model of rs_dashboard.py: the relative-strength screener.             *)
(*                                                                         *)
(* The script resolves a ticker universe (get_ticker_list, cached on disk  *)
(* with a TTL), fetches the benchmark, runs one price-history task per     *)
(* ticker on a thread pool, and in the main thread collects the tasks as   *)
(* they complete, fetches fundamentals, applies the gates, scores the      *)
(* survivors against the benchmark and shows the top decile.               *)
(*                                                                         *)
(* Numbers: a return (pct) is the exact fraction <<last - first, first>>;  *)
(* "RS Score" is kept in hundredths, as round(x, 2) produces it.  The      *)
(* bars of a price response are abstracted to their count, first close,    *)
(* last close, mean volume and the two EMAs pandas computes from them.     *)
(***************************************************************************)
EXTENDS Integers, Sequences, FiniteSets, TLC

\* ------------------------------------------------------------------------
\* Bounds of the model
\* ------------------------------------------------------------------------
\* Largest number of tickers in the scanned universe.
NumTickers == 3
\* Largest number of tickers in the universe of the gate scenarios.
NumGateTickers == 2
\* Hours of wall-clock time the cache scenarios run for.
MaxHours == 30
\* Calls of get_ticker_list in one cache scenario.
MaxCalls == 2
\* Bars beyond the minimum in the longest series of the scoring scenarios.
ExtraBars == 2
\* Largest number of tickers in the ranking scenarios.
MaxRows == 31

\* ------------------------------------------------------------------------
\* Program constants
\* ------------------------------------------------------------------------
\* len(closes) < 200 -> None
MIN_BARS == 200
\* TICKER_CACHE_HOURS
TICKER_CACHE_HOURS == 24
\* top_n = int(len(df) * 0.1): one row in ten
DECILE == 10

TickerNames == <<"AAA", "BBB", "CCC", "DDD", "EEE">>

\* Python's None.
None == [kind |-> "None"]

\* An exception raised by a call (it propagates unless a try catches it).
Raise(exc) == [kind |-> "raise", exc |-> exc]

FundFields ==
    {"market_cap", "eps_growth", "eps_growth_5y", "sales_growth_5y", "roi",
     "institutional_ownership"}

\* dict.get(key, default)
Get(d, key, default) == IF key \in DOMAIN d THEN d[key] ELSE default

Max(a, b) == IF a >= b THEN a ELSE b

\* round(a / b) to the nearest integer, ties to even (b # 0).
RoundDiv(a, b) ==
    LET n == IF b < 0 THEN -a ELSE a
        d == IF b < 0 THEN -b ELSE b
        q == n \div d
        r == n - q * d
    IN  IF 2 * r < d THEN q
        ELSE IF 2 * r > d THEN q + 1
        ELSE IF q % 2 = 0 THEN q ELSE q + 1

\* ------------------------------------------------------------------------
\* get_pct_change_and_emas: everything runs inside try / except: return None
\* ------------------------------------------------------------------------
\* Mutant: the length test is missing; only an empty series fails.
get_pct_any_length(ticker, resp) ==
    IF ~resp.transport_ok THEN None
    ELSE IF ~resp.parseable THEN None
    ELSE IF resp.n = 0 THEN None
    ELSE IF resp.first = 0 THEN None
    ELSE [kind |-> "result",
          ticker |-> ticker,
          pct |-> <<resp.last - resp.first, resp.first>>,
          avg_vol |-> resp.avg_vol,
          price |-> resp.last,
          ema_50 |-> resp.ema_50,
          ema_200 |-> resp.ema_200]

\* Mutant: a zero base is replaced by 1 (closes[0] or 1) instead of failing.
get_pct_zero_base_as_one(ticker, resp) ==
    IF ~resp.transport_ok THEN None
    ELSE IF ~resp.parseable THEN None
    ELSE IF resp.n < MIN_BARS THEN None
    ELSE [kind |-> "result",
          ticker |-> ticker,
          pct |-> <<resp.last - resp.first, IF resp.first = 0 THEN 1 ELSE resp.first>>,
          avg_vol |-> resp.avg_vol,
          price |-> resp.last,
          ema_50 |-> resp.ema_50,
          ema_200 |-> resp.ema_200]

get_pct_change_and_emas(ticker, resp) ==
    IF ~resp.transport_ok THEN None            \* requests.get raised
    ELSE IF ~resp.parseable THEN None          \* res.json() / data["results"] raised
    ELSE IF resp.n < MIN_BARS THEN None
    ELSE IF resp.first = 0 THEN None           \* ZeroDivisionError, caught
    ELSE [kind |-> "result",
          ticker |-> ticker,
          pct |-> <<resp.last - resp.first, resp.first>>,
          avg_vol |-> resp.avg_vol,
          price |-> resp.last,
          ema_50 |-> resp.ema_50,
          ema_200 |-> resp.ema_200]

\* ------------------------------------------------------------------------
\* get_fundamentals: requests.get and res.json() are outside the try
\* ------------------------------------------------------------------------
\* Mutant: a missing field is given a value below every threshold.
get_fundamentals_missing_fails(resp) ==
    IF ~resp.transport_ok THEN Raise("RequestException")
    ELSE IF resp.status_code # 200 THEN None
    ELSE IF ~resp.parseable THEN Raise("JSONDecodeError")
    ELSE IF Len(resp.results) = 0 THEN None
    ELSE LET fundamentals == resp.results[1]
         IN  [kind |-> "fundamentals",
              market_cap |-> Get(fundamentals, "market_cap", -1000),
              eps_growth |-> Get(fundamentals, "eps_growth", -1000),
              eps_growth_5y |-> Get(fundamentals, "eps_growth_5y", -1000),
              sales_growth_5y |-> Get(fundamentals, "sales_growth_5y", -1000),
              roi |-> Get(fundamentals, "roi", -1000),
              institutional_ownership |->
                  Get(fundamentals, "institutional_ownership", -1000)]

get_fundamentals(resp) ==
    IF ~resp.transport_ok THEN Raise("RequestException")
    ELSE IF resp.status_code # 200 THEN None
    ELSE IF ~resp.parseable THEN Raise("JSONDecodeError")
    ELSE IF Len(resp.results) = 0 THEN None    \* KeyError / IndexError, caught
    ELSE LET fundamentals == resp.results[1]
         IN  [kind |-> "fundamentals",
              market_cap |-> Get(fundamentals, "market_cap", 0),
              eps_growth |-> Get(fundamentals, "eps_growth", 0),
              eps_growth_5y |-> Get(fundamentals, "eps_growth_5y", 0),
              sales_growth_5y |-> Get(fundamentals, "sales_growth_5y", 0),
              roi |-> Get(fundamentals, "roi", 0),
              institutional_ownership |->
                  Get(fundamentals, "institutional_ownership", 0)]

\* ------------------------------------------------------------------------
\* The gate of the scan loop (the if of lines 142-153)
\* ------------------------------------------------------------------------
PassesGates(cfg, result, fundamentals) ==
    /\ result.price >= cfg.min_price
    /\ result.avg_vol >= cfg.min_avg_volume
    /\ fundamentals.market_cap >= cfg.min_market_cap
    /\ fundamentals.eps_growth >= cfg.min_eps_growth
    /\ fundamentals.eps_growth_5y >= cfg.min_eps_5y_growth
    /\ fundamentals.sales_growth_5y >= cfg.min_sales_5y_growth
    /\ fundamentals.roi >= cfg.min_roi
    /\ fundamentals.institutional_ownership >= cfg.min_inst_ownership
    /\ result.price > result.ema_50
    /\ result.price > result.ema_200

\* Mutant: the ratio upside down, benchmark over candidate.
RsScoreInverted(pct, bench_pct) ==
    IF pct[1] = 0 THEN 0
    ELSE RoundDiv(100 * bench_pct[1] * pct[2], bench_pct[2] * pct[1])

\* round(result["pct"] / benchmark_data["pct"], 2), in hundredths.
\* Defined only when the benchmark's return is not 0.
RsScore(pct, bench_pct) ==
    RoundDiv(100 * pct[1] * bench_pct[2], pct[2] * bench_pct[1])

\* round(result["pct"] * 100, 2), in hundredths of a percent.
ReturnPct(pct) == RoundDiv(10000 * pct[1], pct[2])

Row(result, bench) ==
    [Ticker |-> result.ticker,
     ReturnPct |-> ReturnPct(result.pct),
     RSScore |-> RsScore(result.pct, bench.pct)]

\* ------------------------------------------------------------------------
\* Ranking: df.sort_values("RS Score", ascending=False), df.head(max(1, top_n))
\* ------------------------------------------------------------------------
\* Insert row into a list sorted by RS Score descending, after its equals:
\* rows of equal score keep the order in which they were appended.
\* Mutant: ascending=False is dropped, the list is sorted ascending.
RECURSIVE InsertRowAscending(_, _)
InsertRowAscending(sorted, row) ==
    IF sorted = << >> THEN <<row>>
    ELSE IF Head(sorted).RSScore <= row.RSScore
         THEN <<Head(sorted)>> \o InsertRowAscending(Tail(sorted), row)
         ELSE <<row>> \o sorted

RECURSIVE InsertRow(_, _)
InsertRow(sorted, row) ==
    IF sorted = << >> THEN <<row>>
    ELSE IF Head(sorted).RSScore >= row.RSScore
         THEN <<Head(sorted)>> \o InsertRow(Tail(sorted), row)
         ELSE <<row>> \o sorted

RECURSIVE SortValues(_)
SortValues(rows) ==
    IF rows = << >> THEN << >>
    ELSE InsertRow(SortValues(SubSeq(rows, 1, Len(rows) - 1)), rows[Len(rows)])

TopN(df) == Len(df) \div DECILE

HeadRows(df, n) == SubSeq(df, 1, IF n < Len(df) THEN n ELSE Len(df))

\* Mutant: df.head(top_n), without the max(1, ...).
TopDfNoFloor(df) == HeadRows(df, TopN(df))

TopDf(df) == HeadRows(df, Max(1, TopN(df)))

\* ------------------------------------------------------------------------
\* Ticker caching.  Time is counted in hours since the epoch.
\* ------------------------------------------------------------------------
\* The file's mtime is read with datetime.fromtimestamp, a naive local time
\* (UTC + utc_offset); the clock is read with datetime.utcnow, a naive UTC
\* time.  Their difference is compared with the maximum age.
is_cache_valid(file, max_age_hours, utc_now, utc_offset) ==
    IF ~file.exists THEN FALSE
    ELSE LET mtime == file.mtime + utc_offset
         IN  (utc_now - mtime) * 3600 < max_age_hours * 3600

\* Mutant: the type of the item is not tested.
RECURSIVE PageTickersAnyType(_)
PageTickersAnyType(items) ==
    IF items = << >> THEN << >>
    ELSE (IF Head(items).primary_exchange \in {"XNYS", "XNAS"}
          THEN <<Head(items).ticker>>
          ELSE << >>) \o PageTickersAnyType(Tail(items))

\* The tickers one page adds: common stock on the two exchanges.
RECURSIVE PageTickers(_)
PageTickers(items) ==
    IF items = << >> THEN << >>
    ELSE (IF Head(items).primary_exchange \in {"XNYS", "XNAS"} /\ Head(items).type = "CS"
          THEN <<Head(items).ticker>>
          ELSE << >>) \o PageTickers(Tail(items))

\* The while loop of get_ticker_list from page idx on: requests.get and
\* res.json() are not guarded, so a failed request ends the call by raising.
RECURSIVE Paginate(_, _, _, _)
Paginate(pages, idx, acc, nreq) ==
    LET page == pages[idx] IN
    IF ~page.transport_ok
    THEN [kind |-> "raise", exc |-> "RequestException", requests |-> nreq + 1]
    ELSE IF ~page.parseable
    THEN [kind |-> "raise", exc |-> "JSONDecodeError", requests |-> nreq + 1]
    ELSE LET found == acc \o PageTickers(page.results) IN
         IF page.next_url = 0
         THEN [kind |-> "return", value |-> found, requests |-> nreq + 1]
         ELSE Paginate(pages, page.next_url, found, nreq + 1)

\* ------------------------------------------------------------------------
\* Inputs: what the data provider answers, and the sidebar's thresholds
\* ------------------------------------------------------------------------
Item(t, x, ty) == [ticker |-> t, primary_exchange |-> x, type |-> ty]

\* A page of the catalog; next_url = 0 stands for no next_url, results = << >>
\* for a payload without "results".
Page(items, next) ==
    [transport_ok |-> TRUE, parseable |-> TRUE, results |-> items, next_url |-> next]

PageOne(next) ==
    Page(<<Item("AAA", "XNYS", "CS"), Item("ETF", "ARCX", "ETF"),
           Item("OTC", "XOTC", "CS")>>, next)
PageTwo(next) ==
    Page(<<Item("WAR", "XNYS", "WARRANT"), Item("BBB", "XNAS", "CS")>>, next)
PageThree == Page(<<Item("CCC", "XNAS", "CS")>>, 0)

\* The listings the provider may answer a call with.
Catalogs ==
    {<<PageOne(2), PageTwo(0)>>,
     <<PageThree>>,
     <<PageOne(2), PageTwo(3), PageThree>>,
     <<PageOne(2), [PageTwo(0) EXCEPT !.transport_ok = FALSE]>>,
     <<PageOne(2), [PageTwo(3) EXCEPT !.parseable = FALSE], PageThree>>,
     <<PageOne(2), Page(<< >>, 0)>>,
     <<[PageOne(0) EXCEPT !.transport_ok = FALSE]>>}

\* Local time minus UTC, in hours, of the machine the script runs on.
UtcOffsets == {-5, 0, 9}

NoFile == [exists |-> FALSE, mtime |-> 0, content |-> << >>]

PriceOk(last) ==
    [transport_ok |-> TRUE, parseable |-> TRUE, n |-> MIN_BARS, first |-> 100,
     last |-> last, avg_vol |-> 1000000, ema_50 |-> 100, ema_200 |-> 95]

PriceTransportFail == [PriceOk(100) EXCEPT !.transport_ok = FALSE]
PriceBadPayload == [PriceOk(100) EXCEPT !.parseable = FALSE]
PriceShortHistory == [PriceOk(100) EXCEPT !.n = MIN_BARS - 1]

GoodFields ==
    [f \in FundFields |->
        CASE f = "market_cap" -> 2000000000
          [] f = "eps_growth" -> 20
          [] f = "eps_growth_5y" -> 15
          [] f = "sales_growth_5y" -> 10
          [] f = "roi" -> 15
          [] OTHER -> 50]

FundOk(fields) ==
    [transport_ok |-> TRUE, status_code |-> 200, parseable |-> TRUE,
     results |-> <<fields>>]

FundGood == FundOk(GoodFields)
FundWeak == FundOk([GoodFields EXCEPT !["eps_growth"] = 19])
FundTransportFail == [FundGood EXCEPT !.transport_ok = FALSE]
FundNotFound == [FundGood EXCEPT !.status_code = 404]
FundBadJson == [FundGood EXCEPT !.parseable = FALSE]
FundNoResults == [FundGood EXCEPT !.results = << >>]

\* The sidebar's default values.
DefaultConfig ==
    [min_price |-> 5, min_avg_volume |-> 500000, min_market_cap |-> 2000000000,
     min_eps_growth |-> 20, min_eps_5y_growth |-> 15, min_sales_5y_growth |-> 10,
     min_roi |-> 15, min_inst_ownership |-> 50]

\* What one ticker's two requests answer; the fundamentals of a ticker whose
\* price fetch fails are never requested.  (A price payload that cannot be
\* read gives None like a failed request; it is among the gate and scoring
\* scenarios.)
TickerFeeds ==
    {<<PriceTransportFail, FundGood>>,
     <<PriceShortHistory, FundGood>>,
     <<PriceOk(120), FundGood>>,
     <<PriceOk(105), FundGood>>,
     <<PriceOk(120), FundWeak>>,
     <<PriceOk(120), FundTransportFail>>,
     <<PriceOk(120), FundNotFound>>,
     <<PriceOk(120), FundBadJson>>}

\* Gate scenarios: one deviation from a ticker that passes everything.
WithEmas(resp, e50, e200) == [resp EXCEPT !.ema_50 = e50, !.ema_200 = e200]

GatePriceFeeds ==
    {PriceOk(105),
     WithEmas(PriceOk(4), 3, 2),                     \* price below min_price
     WithEmas(PriceOk(5), 3, 2),                     \* price = min_price
     [PriceOk(105) EXCEPT !.avg_vol = 499999],       \* volume below the minimum
     [PriceOk(105) EXCEPT !.avg_vol = 500000],       \* volume = minimum
     WithEmas(PriceOk(105), 105, 95),                \* price = EMA50
     WithEmas(PriceOk(105), 100, 105)}               \* price = EMA200

\* The record without field f (the provider left it out).
Without(fields, f) == [g \in (DOMAIN fields) \ {f} |-> fields[g]]

GateFundFeeds ==
    {FundGood, FundNoResults, FundOk(<< >>)}
        \cup {FundOk([GoodFields EXCEPT ![f] = GoodFields[f] - 1]) : f \in FundFields}
        \cup {FundOk(Without(GoodFields, f)) : f \in FundFields}

GateFeeds ==
    {<<p, FundGood>> : p \in GatePriceFeeds}
        \cup {<<PriceOk(105), f>> : f \in GateFundFeeds}

\* Thresholds: the defaults, all fundamental thresholds 0, all of them -5.
FundThresholds(v) ==
    [DefaultConfig EXCEPT !.min_market_cap = v, !.min_eps_growth = v,
                          !.min_eps_5y_growth = v, !.min_sales_5y_growth = v,
                          !.min_roi = v, !.min_inst_ownership = v]

GateConfigs == {DefaultConfig, FundThresholds(0), FundThresholds(-5)}

\* Scoring scenarios: series of every length up to a little over the
\* minimum, with a zero or non-zero first close, and the two failed requests.
ScorePriceFeeds ==
    {[PriceOk(l) EXCEPT !.n = n, !.first = f] :
        n \in 0..(MIN_BARS + ExtraBars), f \in {0, 100}, l \in {0, 90, 120}}
        \cup {PriceTransportFail, PriceBadPayload}

\* The benchmark's price request: failed, +10 %, flat (return 0), -10 %.
BenchFeeds == {PriceTransportFail, PriceOk(110), PriceOk(100), PriceOk(90)}

\* ------------------------------------------------------------------------
\* State
\* ------------------------------------------------------------------------
VARIABLES
    config,          \* the sidebar's thresholds
    tickers,         \* tickers[:max_tickers], the universe to scan
    price_feed,      \* per ticker, the answer to its price request
    fund_feed,       \* per ticker, the answer to its fundamentals request
    bench_feed,      \* the answer to the benchmark's price request
    pc,              \* "benchmark", "scan", "done" or "crashed"
    benchmark_data,  \* get_pct_change_and_emas(benchmark)
    future,          \* per submitted task, its result once the worker is done
    done,            \* the tasks the pool has finished
    collected,       \* the tasks as_completed has yielded, in order
    entered,         \* the tasks that passed the result-is-None check, in order
    gated,           \* the tasks whose gate condition held (line 154 reached)
    reports,         \* the processed counts given to progress_bar, in order
    rs_list,         \* the rows appended so far
    top_df,          \* the rows shown
    shown,           \* what the page ends with
    error,           \* the exception that ended the script, if any
    now,             \* the clock, in hours (UTC)
    utc_offset,      \* the machine's local time minus UTC, in hours
    cache_file,      \* tickers_cache.json: exists, mtime, content
    calls,           \* the calls of get_ticker_list so far
    catalog,         \* the listing the provider answered the last call with
    requests,        \* the requests the last call made
    returned         \* what the last call returned or raised

scan_vars ==
    <<config, tickers, price_feed, fund_feed, bench_feed, pc, benchmark_data,
      future, done, collected, entered, gated, reports, rs_list, top_df, shown,
      error>>

cache_vars == <<now, utc_offset, cache_file, calls, catalog, requests, returned>>

vars == <<scan_vars, cache_vars>>

inputs == <<config, tickers, price_feed, fund_feed, bench_feed>>

Tasks == 1..Len(tickers)

Range(s) == {s[k] : k \in DOMAIN s}

InitState ==
    /\ pc = "benchmark"
    /\ benchmark_data = None
    /\ future = [k \in Tasks |-> None]
    /\ done = {}
    /\ collected = << >>
    /\ entered = << >>
    /\ gated = {}
    /\ reports = << >>
    /\ rs_list = << >>
    /\ top_df = << >>
    /\ shown = "nothing"
    /\ error = "none"

\* No call of get_ticker_list is in the picture.
CacheIdle ==
    /\ now = 0
    /\ utc_offset = 0
    /\ cache_file = NoFile
    /\ calls = 0
    /\ catalog = << >>
    /\ requests = 0
    /\ returned = None

Init ==
    /\ config = DefaultConfig
    /\ \E n \in 0..NumTickers :
        /\ tickers = SubSeq(TickerNames, 1, n)
        /\ \E feed \in [1..n -> TickerFeeds] :
            /\ price_feed = [k \in 1..n |-> feed[k][1]]
            /\ fund_feed = [k \in 1..n |-> feed[k][2]]
    /\ bench_feed \in BenchFeeds
    /\ InitState
    /\ CacheIdle

\* The gate scenarios: a working benchmark, thresholds and records varied.
InitGate ==
    /\ config \in GateConfigs
    /\ \E n \in 1..NumGateTickers :
        /\ tickers = SubSeq(TickerNames, 1, n)
        /\ \E feed \in [1..n -> GateFeeds] :
            /\ price_feed = [k \in 1..n |-> feed[k][1]]
            /\ fund_feed = [k \in 1..n |-> feed[k][2]]
    /\ bench_feed = PriceOk(110)
    /\ InitState
    /\ CacheIdle

\* The scoring scenarios: AAA's price series varied, next to a ticker BBB
\* that passes everything, with a working benchmark.
InitScore ==
    /\ config = DefaultConfig
    /\ tickers = <<"AAA", "BBB">>
    /\ \E resp \in ScorePriceFeeds : price_feed = <<resp, PriceOk(120)>>
    /\ fund_feed = <<FundGood, FundGood>>
    /\ bench_feed = PriceOk(110)
    /\ InitState
    /\ CacheIdle

\* ------------------------------------------------------------------------
\* Main execution
\* ------------------------------------------------------------------------
\* Mutant: the scan is started whether or not the benchmark was fetched.
FetchBenchmarkScansAnyway ==
    /\ pc = "benchmark"
    /\ benchmark_data' = get_pct_change_and_emas("SPY", bench_feed)
    /\ pc' = "scan"
    /\ shown' = IF benchmark_data' = None THEN "benchmark_error" ELSE "benchmark_info"
    /\ UNCHANGED <<inputs, future, done, collected, entered, gated, reports,
                   rs_list, top_df, error, cache_vars>>

\* Lines 117-132: fetch the benchmark; without it the page shows an error and
\* nothing else runs; with it, one task per ticker is submitted to the pool.
FetchBenchmark ==
    /\ pc = "benchmark"
    /\ benchmark_data' = get_pct_change_and_emas("SPY", bench_feed)
    /\ IF benchmark_data' = None
       THEN /\ pc' = "done"
            /\ shown' = "benchmark_error"
       ELSE /\ pc' = "scan"
            /\ shown' = "benchmark_info"
    /\ UNCHANGED <<inputs, future, done, collected, entered, gated, reports,
                   rs_list, top_df, error, cache_vars>>

\* Mutant: the worker appends its own row to the shared list.
TaskRunAppends(k) ==
    /\ pc \in {"scan", "crashed"}
    /\ k \in Tasks \ done
    /\ LET result == get_pct_change_and_emas(tickers[k], price_feed[k]) IN
       /\ future' = [future EXCEPT ![k] = result]
       /\ rs_list' = IF result # None /\ benchmark_data.pct[1] # 0
                     THEN Append(rs_list, Row(result, benchmark_data))
                     ELSE rs_list
    /\ done' = done \cup {k}
    /\ UNCHANGED <<inputs, pc, benchmark_data, collected, entered, gated,
                   reports, top_df, shown, error, cache_vars>>

\* A pool worker runs one task: it only produces the task's return value.
\* The with-block waits for the workers even when the main thread has raised.
TaskRun(k) ==
    /\ pc \in {"scan", "crashed"}
    /\ k \in Tasks \ done
    /\ future' = [future EXCEPT ![k] = get_pct_change_and_emas(tickers[k], price_feed[k])]
    /\ done' = done \cup {k}
    /\ UNCHANGED <<inputs, pc, benchmark_data, collected, entered, gated,
                   reports, rs_list, top_df, shown, error, cache_vars>>

\* Mutant: the count is one too many (enumerate started at 1, + 1 kept).
ProgressCountOffByOne(i) == i + 2

\* Line 169: the numerator of progress in iteration i of enumerate.
ProgressCount(i) == i + 1

\* One iteration of the for loop over as_completed(futures), lines 133-171.
Collect(k) ==
    /\ pc = "scan"
    /\ k \in done \ Range(collected)
    /\ collected' = Append(collected, k)
    /\ LET result == future[k]
           i == Len(collected)          \* enumerate's index of this iteration
       IN
       IF result = None
       THEN UNCHANGED <<entered, gated, reports, rs_list, pc, error, shown>>
       ELSE LET fundamentals == get_fundamentals(fund_feed[k]) IN
            /\ entered' = Append(entered, k)
            /\ IF fundamentals.kind = "raise"
               THEN /\ pc' = "crashed"
                    /\ error' = fundamentals.exc
                    /\ UNCHANGED <<gated, reports, rs_list, shown>>
               ELSE IF fundamentals = None
               THEN UNCHANGED <<gated, reports, rs_list, pc, error, shown>>
               ELSE IF ~PassesGates(config, result, fundamentals)
               THEN /\ shown' = "progress"
                    /\ reports' = Append(reports, ProgressCount(i))
                    /\ UNCHANGED <<gated, rs_list, pc, error>>
               ELSE /\ gated' = gated \cup {k}
                    /\ IF benchmark_data = None
                       THEN /\ pc' = "crashed"
                            /\ error' = "TypeError"
                            /\ UNCHANGED <<reports, rs_list, shown>>
                       ELSE IF benchmark_data.pct[1] = 0
                       THEN /\ pc' = "crashed"
                            /\ error' = "ZeroDivisionError"
                            /\ UNCHANGED <<reports, rs_list, shown>>
                       ELSE /\ rs_list' = Append(rs_list, Row(result, benchmark_data))
                            /\ shown' = "progress"
                            /\ reports' = Append(reports, ProgressCount(i))
                            /\ UNCHANGED <<pc, error>>
    /\ UNCHANGED <<inputs, benchmark_data, future, done, top_df, cache_vars>>

\* Lines 173-183, once as_completed is exhausted.  A DataFrame built from an
\* empty list has no "RS Score" column: sort_values raises KeyError.
Rank ==
    /\ pc = "scan"
    /\ Len(collected) = Len(tickers)
    /\ IF rs_list = << >>
       THEN /\ pc' = "crashed"
            /\ error' = "KeyError"
            /\ UNCHANGED <<top_df, shown>>
       ELSE /\ pc' = "done"
            /\ top_df' = TopDf(SortValues(rs_list))
            /\ shown' = IF top_df' # << >> THEN "success" ELSE "warning"
            /\ UNCHANGED error
    /\ UNCHANGED <<inputs, benchmark_data, future, done, collected, entered,
                   gated, reports, rs_list, cache_vars>>

Next ==
    \/ FetchBenchmark
    \/ \E k \in Tasks : TaskRun(k)
    \/ \E k \in Tasks : Collect(k)
    \/ Rank

Spec == Init /\ [][Next]_vars

SpecGate == InitGate /\ [][Next]_vars

SpecScore == InitScore /\ [][Next]_vars

\* The ranking scenarios: a scan of n tickers that all pass every gate, with
\* last closes that repeat with a period, caught when all tasks but the last
\* two have run and been collected in submission order.
RankStrides == {1, 3, 7}
RankPeriods == {5, 11}

RankTickers(n) == [k \in 1..n |-> "T" \o ToString(k)]

RankPrices(n, stride, period) ==
    [k \in 1..n |-> PriceOk(101 + ((k * stride) % period))]

InitRank ==
    \E n \in 2..MaxRows, stride \in RankStrides, period \in RankPeriods :
        /\ config = DefaultConfig
        /\ tickers = RankTickers(n)
        /\ price_feed = RankPrices(n, stride, period)
        /\ fund_feed = [k \in 1..n |-> FundGood]
        /\ bench_feed = PriceOk(110)
        /\ pc = "scan"
        /\ benchmark_data = get_pct_change_and_emas("SPY", bench_feed)
        /\ done = 1..(n - 2)
        /\ future = [k \in 1..n |->
                        IF k \in done
                        THEN get_pct_change_and_emas(tickers[k], price_feed[k])
                        ELSE None]
        /\ collected = [j \in 1..(n - 2) |-> j]
        /\ entered = collected
        /\ gated = done
        /\ reports = [j \in 1..(n - 2) |-> ProgressCount(j - 1)]
        /\ rs_list = [j \in 1..(n - 2) |-> Row(future[j], benchmark_data)]
        /\ top_df = << >>
        /\ shown = IF n > 2 THEN "progress" ELSE "benchmark_info"
        /\ error = "none"
        /\ CacheIdle

\* The rest of a scan whose benchmark was fetched.
NextRank ==
    \/ \E k \in Tasks : TaskRun(k)
    \/ \E k \in Tasks : Collect(k)
    \/ Rank

SpecRank == InitRank /\ [][NextRank]_vars

\* ------------------------------------------------------------------------
\* The ticker universe: get_ticker_list called again and again as time passes
\* ------------------------------------------------------------------------
\* No scan is in the picture: the cache file is absent, or an earlier run
\* wrote it at hour 0.
InitCache ==
    /\ now = 0
    /\ utc_offset \in UtcOffsets
    /\ cache_file \in {NoFile, [exists |-> TRUE, mtime |-> 0, content |-> <<"OLD">>]}
    /\ calls = 0
    /\ catalog = << >>
    /\ requests = 0
    /\ returned = None
    /\ config = DefaultConfig
    /\ tickers = << >>
    /\ price_feed = << >>
    /\ fund_feed = << >>
    /\ bench_feed = PriceTransportFail
    /\ InitState

\* An hour passes.
Tick ==
    /\ now < MaxHours
    /\ now' = now + 1
    /\ UNCHANGED <<utc_offset, cache_file, calls, catalog, requests, returned,
                   scan_vars>>

\* One call of get_ticker_list, the provider answering with listing pages.
GetTickerList(pages) ==
    /\ calls < MaxCalls
    /\ calls' = calls + 1
    /\ IF is_cache_valid(cache_file, TICKER_CACHE_HOURS, now, utc_offset)
       THEN /\ returned' = [kind |-> "return", value |-> cache_file.content]
            /\ requests' = 0
            /\ UNCHANGED <<cache_file, catalog>>
       ELSE LET fetched == Paginate(pages, 1, << >>, 0) IN
            /\ catalog' = pages
            /\ requests' = fetched.requests
            /\ IF fetched.kind = "raise"
               THEN /\ returned' = Raise(fetched.exc)
                    /\ UNCHANGED cache_file
               ELSE /\ returned' = [kind |-> "return", value |-> fetched.value]
                    /\ cache_file' = [exists |-> TRUE, mtime |-> now,
                                      content |-> fetched.value]
    /\ UNCHANGED <<now, utc_offset, scan_vars>>

NextCache ==
    \/ Tick
    \/ \E pages \in Catalogs : GetTickerList(pages)

SpecCache == InitCache /\ [][NextCache]_vars

\* ------------------------------------------------------------------------
\* Vocabulary of the properties, read off the inputs alone
\* ------------------------------------------------------------------------
RowTickers(rows) == {rows[j].Ticker : j \in DOMAIN rows}

\* The price fetch of task k fails (transport failure, bad payload, short or
\* unusable history).
PriceFails(k) == get_pct_change_and_emas(tickers[k], price_feed[k]) = None

\* The fundamentals fetch of task k fails, in any way.
FundFails(k) == get_fundamentals(fund_feed[k]).kind # "fundamentals"

\* Task k has both records and they satisfy every gate.
SatisfiesAllGates(k) ==
    /\ ~PriceFails(k)
    /\ ~FundFails(k)
    /\ PassesGates(config, get_pct_change_and_emas(tickers[k], price_feed[k]),
                   get_fundamentals(fund_feed[k]))

Terminated == pc \in {"done", "crashed"}

\* ------------------------------------------------------------------------
\* C1: a fetch failure of any kind, in the price-history fetch or in the
\* fundamentals fetch, only excludes its ticker: no fetch exception ends the
\* scan, a collected ticker with a failed fetch is not in the result list,
\* and once the loop is over every ticker that satisfies the gates was gated.
\* Stated as the claim has it; the code violates it (fundamentals fetch).
\* ------------------------------------------------------------------------
C1_FetchFailureOnlyExcludesItsTicker ==
    /\ error \notin {"RequestException", "JSONDecodeError"}
    /\ \A k \in Range(collected) :
           (PriceFails(k) \/ FundFails(k)) => tickers[k] \notin RowTickers(rs_list)
    /\ (Terminated /\ benchmark_data # None /\ error # "ZeroDivisionError") =>
           \A k \in Tasks : SatisfiesAllGates(k) => k \in gated

\* ------------------------------------------------------------------------
\* C2: with a benchmark whose return is 0 the run never raises a division
\* error, and a candidate that passes the gates still gets a row.
\* Stated as the claim has it; the code violates it (line 154 divides).
\* ------------------------------------------------------------------------
C2_ZeroBenchmarkNeverDivides ==
    (benchmark_data # None /\ benchmark_data.pct[1] = 0) =>
        /\ error # "ZeroDivisionError"
        /\ \A k \in gated : tickers[k] \in RowTickers(rs_list)

\* ------------------------------------------------------------------------
\* C3 as claimed: when the benchmark fetch fails the tickers are still
\* scanned and a result set is produced.
\* ------------------------------------------------------------------------
C3_Original_BenchmarkFailureStillScans ==
    (pc = "done" /\ benchmark_data = None /\ Len(tickers) > 0) =>
        /\ Len(collected) = Len(tickers)
        /\ shown \in {"success", "warning"}

\* C3 as amended: when the benchmark fetch fails the run raises nothing, but
\* the scan is skipped: the page ends with the benchmark error, no task is
\* submitted, run or collected, and no result set is produced.
C3_BenchmarkFailureSkipsScan ==
    (pc # "benchmark" /\ benchmark_data = None) =>
        /\ pc = "done"
        /\ shown = "benchmark_error"
        /\ error = "none"
        /\ done = {}
        /\ collected = << >>
        /\ rs_list = << >>
        /\ top_df = << >>

C3_Witness ==
    pc = "done" /\ benchmark_data = None /\ Len(tickers) > 1 /\ shown = "benchmark_error"

\* ------------------------------------------------------------------------
\* C4: for fixed fetch results the output is the same for every order in
\* which the tasks complete: it equals the output of the run in which the
\* tasks complete in submission order.
\* Stated as the claim has it; the code violates it when RS scores tie.
\* ------------------------------------------------------------------------
RECURSIVE RowsInOrder(_)
RowsInOrder(order) ==
    IF order = << >> THEN << >>
    ELSE LET k == Head(order) IN
         (IF SatisfiesAllGates(k)
          THEN <<Row(get_pct_change_and_emas(tickers[k], price_feed[k]), benchmark_data)>>
          ELSE << >>) \o RowsInOrder(Tail(order))

SubmissionOrder == [k \in Tasks |-> k]

C4_OutputIndependentOfCompletionOrder ==
    (pc = "done" /\ benchmark_data # None) =>
        top_df = TopDf(SortValues(RowsInOrder(SubmissionOrder)))

\* ------------------------------------------------------------------------
\* C5 as claimed: the output is exactly the gate-passing candidates whose
\* percentile rank over the whole scored universe (every ticker with a valid
\* price series) is at or above the 90th.
\* ------------------------------------------------------------------------
Scored == {k \in Tasks : ~PriceFails(k)}

PctOf(k) == get_pct_change_and_emas(tickers[k], price_feed[k]).pct

\* pct of a <= pct of b, as fractions with positive denominators
PctLeq(a, b) == a[1] * b[2] <= b[1] * a[2]

\* rs_percentile >= 90: 100 * (scored with return <= this one) >= 90 * total
AtOrAboveCutoff(k) ==
    100 * Cardinality({u \in Scored : PctLeq(PctOf(u), PctOf(k))})
        >= 90 * Cardinality(Scored)

FailsSomeGate(cfg, r, f) ==
    \/ r.price < cfg.min_price
    \/ r.avg_vol < cfg.min_avg_volume
    \/ f.market_cap < cfg.min_market_cap
    \/ f.eps_growth < cfg.min_eps_growth
    \/ f.eps_growth_5y < cfg.min_eps_5y_growth
    \/ f.sales_growth_5y < cfg.min_sales_5y_growth
    \/ f.roi < cfg.min_roi
    \/ f.institutional_ownership < cfg.min_inst_ownership
    \/ ~(r.price > r.ema_50)
    \/ ~(r.price > r.ema_200)

C6_GatesDecideMembership ==
    \A k \in Range(collected) :
        (~PriceFails(k) /\ ~FundFails(k)) =>
            LET r == future[k]
                f == get_fundamentals(fund_feed[k])
            IN  IF FailsSomeGate(config, r, f)
                THEN tickers[k] \notin RowTickers(rs_list)
                ELSE tickers[k] \in RowTickers(rs_list)

\* ------------------------------------------------------------------------
\* C7 as claimed: a candidate whose fundamentals record lacks a field fails
\* that field's gate whatever the thresholds are, so its gate condition
\* never holds.
\* ------------------------------------------------------------------------
\* The fields the provider's record of task k has.
FieldsOf(k) == DOMAIN fund_feed[k].results[1]

Threshold(cfg, f) ==
    CASE f = "market_cap" -> cfg.min_market_cap
      [] f = "eps_growth" -> cfg.min_eps_growth
      [] f = "eps_growth_5y" -> cfg.min_eps_5y_growth
      [] f = "sales_growth_5y" -> cfg.min_sales_5y_growth
      [] f = "roi" -> cfg.min_roi
      [] OTHER -> cfg.min_inst_ownership

Gated(k) == k \in Range(collected) /\ ~PriceFails(k) /\ ~FundFails(k)

C7_Original_AbsentFieldAlwaysFails ==
    \A k \in Tasks :
        (Gated(k) /\ FieldsOf(k) # FundFields) => k \notin gated

\* C7 as amended: an absent field is read as the value 0: the candidate
\* passes that field's gate exactly when the field's threshold is zero or
\* negative, and fails it when the threshold is above 0; a present field
\* passes when its value is at or above the threshold.
C7_AbsentFieldIsZero ==
    \A k \in Tasks :
        Gated(k) =>
            (k \in gated <=>
                /\ future[k].price >= config.min_price
                /\ future[k].avg_vol >= config.min_avg_volume
                /\ future[k].price > future[k].ema_50
                /\ future[k].price > future[k].ema_200
                /\ \A f \in FundFields :
                       IF f \in FieldsOf(k)
                       THEN fund_feed[k].results[1][f] >= Threshold(config, f)
                       ELSE Threshold(config, f) <= 0)

\* A record without a field passed the gates and got its row.
C7_Witness ==
    \E k \in Tasks :
        /\ Gated(k)
        /\ FieldsOf(k) # FundFields
        /\ k \in gated
        /\ tickers[k] \in RowTickers(rs_list)

\* ------------------------------------------------------------------------
\* C10: of N scanned tickers with F failing price fetches, exactly N - F pass
\* the price-result check, each once, and the scan ends with every submitted
\* task collected, none twice.
\* Stated as the claim has it; the code violates it when the loop raises
\* (C1, C2): the tasks not yet yielded are never collected.
\* ------------------------------------------------------------------------
NoDuplicates(s) == \A a, b \in DOMAIN s : s[a] = s[b] => a = b

C10_EveryTaskCollectedOnce ==
    /\ NoDuplicates(collected)
    /\ NoDuplicates(entered)
    /\ (Terminated /\ benchmark_data # None) =>
           /\ Range(collected) = Tasks
           /\ Len(entered) = Len(tickers) - Cardinality({k \in Tasks : PriceFails(k)})
           /\ Range(entered) = {k \in Tasks : ~PriceFails(k)}

\* ------------------------------------------------------------------------
\* C8: a call of get_ticker_list while the cache file is younger than the
\* TTL (fewer than 24 hours since it was written) returns the file's list and
\* makes no request; a call when the file is missing or older refetches, and
\* a refetch that returns leaves the file holding exactly the fetched list.
\* Stated as the claim has it; the code violates it when the machine's local
\* time is not UTC.
\* ------------------------------------------------------------------------
C8_CacheServedWithinTtlRefetchedAfter ==
    [][calls' = calls + 1 =>
        IF cache_file.exists /\ now - cache_file.mtime < TICKER_CACHE_HOURS
        THEN /\ returned' = [kind |-> "return", value |-> cache_file.content]
             /\ requests' = 0
             /\ cache_file' = cache_file
        ELSE /\ requests' >= 1
             /\ returned'.kind = "return" =>
                    cache_file' = [exists |-> TRUE, mtime |-> now,
                                   content |-> returned'.value]]_vars

\* ------------------------------------------------------------------------
\* C9: when a paging request errors or returns a malformed payload, the call
\* still returns: its value is the tickers of the pages fetched before it.
\* Stated as the claim has it; the code violates it (the exception leaves
\* get_ticker_list and ends the script).
\* ------------------------------------------------------------------------
\* The tickers of the pages from idx on, up to the first failing request.
RECURSIVE GatheredUntilFailure(_, _)
GatheredUntilFailure(pages, idx) ==
    LET page == pages[idx] IN
    IF ~page.transport_ok \/ ~page.parseable THEN << >>
    ELSE PageTickers(page.results)
             \o (IF page.next_url = 0 THEN << >>
                 ELSE GatheredUntilFailure(pages, page.next_url))

C9_PagingFailureReturnsPartial ==
    (calls > 0 /\ requests > 0) =>
        /\ returned.kind = "return"
        /\ returned.value = GatheredUntilFailure(catalog, 1)

\* ------------------------------------------------------------------------
\* C13 as claimed: universe AAA (+20 %), BBB (+5 %), CCC (too few bars),
\* benchmark +10 %, AAA and BBB passing every gate: the output lists AAA
\* first with relative score 2.0, BBB second with 0.5, and no CCC.
\* ------------------------------------------------------------------------
EndToEndScenario ==
    /\ tickers = <<"AAA", "BBB", "CCC">>
    /\ price_feed = <<PriceOk(120), PriceOk(105), PriceShortHistory>>
    /\ fund_feed[1] = FundGood
    /\ fund_feed[2] = FundGood
    /\ bench_feed = PriceOk(110)
    /\ config = DefaultConfig

Scores(rows) == [j \in DOMAIN rows |-> <<rows[j].Ticker, rows[j].RSScore>>]

C13_Original_OutputListsBoth ==
    (EndToEndScenario /\ pc = "done") =>
        Scores(top_df) = <<(<<"AAA", 200>>), (<<"BBB", 50>>)>>

\* C13 as amended: in that scenario the run ends without an exception; AAA
\* (2.0) and BBB (0.5) are the rows of the result list and CCC is not; the
\* output is the single row AAA with relative score 2.0, BBB being cut by
\* head(max(1, int(2 * 0.1))).
C13_OutputIsTopRowOnly ==
    EndToEndScenario =>
        /\ pc # "crashed"
        /\ pc = "done" =>
               /\ Range(Scores(rs_list)) = {<<"AAA", 200>>, <<"BBB", 50>>}
               /\ Len(rs_list) = 2
               /\ Scores(top_df) = <<(<<"AAA", 200>>)>>

\* The scenario has run to its end with BBB's task collected before AAA's.
C13_Witness ==
    /\ EndToEndScenario
    /\ pc = "done"
    /\ Len(rs_list) = 2
    /\ rs_list[1].Ticker = "BBB"
    /\ Len(top_df) = 1

\* ------------------------------------------------------------------------
\* C14: rs_list and the benchmark value are written by the main thread only:
\* a step in which a pool task finishes changes neither; rs_list changes only
\* in an iteration of the collecting loop and benchmark_data only in the
\* benchmark fetch, before any task exists.
\* ------------------------------------------------------------------------
C14_WorkersOnlyReturnValues ==
    [][/\ done' # done => (rs_list' = rs_list /\ benchmark_data' = benchmark_data)
       /\ rs_list' # rs_list => (Len(collected') = Len(collected) + 1 /\ done' = done)
       /\ benchmark_data' # benchmark_data => (pc = "benchmark" /\ done = {})]_vars

\* Tasks have finished with a result while the list is still untouched.
C14_Witness ==
    /\ pc = "scan"
    /\ rs_list = << >>
    /\ collected = << >>
    /\ Cardinality({k \in done : future[k] # None}) >= 2

\* ------------------------------------------------------------------------
\* C16: when the loop ends with an empty result list (the empty universe
\* included) the run ends without an exception, showing the warning
\* "No stocks matched your filter criteria.".
\* Stated as the claim has it; the code violates it (sort_values on a frame
\* without columns).
\* ------------------------------------------------------------------------
C16_EmptyResultShowsWarning ==
    (/\ benchmark_data # None
     /\ pc # "scan"
     /\ Len(collected) = Len(tickers)
     /\ rs_list = << >>
     /\ error \notin {"RequestException", "JSONDecodeError", "ZeroDivisionError"}) =>
        /\ pc = "done"
        /\ error = "none"
        /\ shown = "warning"

\* ------------------------------------------------------------------------
\* C18: the processed counts reported during a scan are strictly increasing
\* from one report to the next and never exceed the number of scanned
\* tickers (progress <= 1), whatever the completion order and the failures.
\* ------------------------------------------------------------------------
C18_ProgressIncreasesWithinTotal ==
    /\ \A a \in DOMAIN reports : 1 <= reports[a] /\ reports[a] <= Len(tickers)
    /\ \A a, b \in DOMAIN reports : a < b => reports[a] < reports[b]

\* Two reports with an unreported (failed) ticker collected between them,
\* the last one at processed = total.
C18_Witness ==
    /\ Len(reports) = 2
    /\ reports[1] = 1
    /\ reports[2] = 3
    /\ Len(tickers) = 3
    /\ \E k \in Range(collected) : PriceFails(k)

\* ------------------------------------------------------------------------
\* C11: a delivered price series with fewer than 200 bars gives None, so its
\* ticker never passes the result check and gets no row; a delivered series
\* with at least 200 bars and a non-zero first close gives a score record
\* for that ticker, with the last close as price and (last - first) / first
\* as return.
\* ------------------------------------------------------------------------
Delivered(k) == price_feed[k].transport_ok /\ price_feed[k].parseable

C11_ShortSeriesIsNoneLongSeriesScores ==
    \A k \in done :
        Delivered(k) =>
            /\ price_feed[k].n < 200 =>
                   /\ future[k] = None
                   /\ k \notin Range(entered)
                   /\ tickers[k] \notin RowTickers(rs_list)
            /\ (price_feed[k].n >= 200 /\ price_feed[k].first # 0) =>
                   /\ future[k] # None
                   /\ future[k].ticker = tickers[k]
                   /\ future[k].price = price_feed[k].last
                   /\ future[k].pct[1] * price_feed[k].first =
                          (price_feed[k].last - price_feed[k].first) * future[k].pct[2]
                   /\ k \in Range(collected) => k \in Range(entered)

\* A series of 199 bars was excluded and the run finished with the other
\* ticker.
C11_Witness ==
    /\ pc = "done"
    /\ \E k \in Range(collected) :
           /\ Delivered(k)
           /\ price_feed[k].n = 199
           /\ price_feed[k].first # 0
           /\ future[k] = None
    /\ Len(top_df) = 1

\* ------------------------------------------------------------------------
\* C12: a series long enough whose first close (the base of the return) is
\* zero gives None for its ticker: the run does not end with an exception
\* and the ticker gets no row, so no undefined score reaches the ranking.
\* ------------------------------------------------------------------------
ZeroBase(k) ==
    Delivered(k) /\ price_feed[k].n >= MIN_BARS /\ price_feed[k].first = 0

C12_ZeroBaseIsNone ==
    /\ pc # "crashed"
    /\ error = "none"
    /\ \A k \in done :
           ZeroBase(k) =>
               /\ future[k] = None
               /\ k \notin Range(entered)
               /\ tickers[k] \notin RowTickers(rs_list) \cup RowTickers(top_df)

\* A zero-base series was collected and the run finished with a ranking.
C12_Witness ==
    /\ pc = "done"
    /\ shown = "success"
    /\ \E k \in Range(collected) : ZeroBase(k) /\ price_feed[k].last # 0

\* ------------------------------------------------------------------------
\* C17: a call that does not use the cache requests page 1 and then the page
\* each next_url names, one request per page, until a page has no next_url;
\* when every one of those pages is delivered it returns, in the order of the
\* catalog, exactly the tickers of their items of type CS with primary
\* exchange XNYS or XNAS, and writes that list to the cache file.
\* ------------------------------------------------------------------------
PageDelivered(page) == page.transport_ok /\ page.parseable

\* The pages the cursor leads through, from page idx on.
RECURSIVE Followed(_, _)
Followed(pages, idx) ==
    <<idx>> \o (IF PageDelivered(pages[idx]) /\ pages[idx].next_url # 0
                THEN Followed(pages, pages[idx].next_url)
                ELSE << >>)

RECURSIVE ItemsOf(_, _)
ItemsOf(pages, chain) ==
    IF chain = << >> THEN << >>
    ELSE pages[Head(chain)].results \o ItemsOf(pages, Tail(chain))

IsListedCommonStock(item) ==
    item.type = "CS" /\ item.primary_exchange \in {"XNYS", "XNAS"}

ListedCommonStock(items) ==
    LET kept == SelectSeq(items, IsListedCommonStock)
    IN  [j \in DOMAIN kept |-> kept[j].ticker]

C17_FreshListingFollowsCursorAndFilters ==
    requests > 0 =>
        LET chain == Followed(catalog, 1) IN
        /\ requests = Len(chain)
        /\ (\A j \in DOMAIN chain : PageDelivered(catalog[chain[j]])) =>
               /\ catalog[chain[Len(chain)]].next_url = 0
               /\ returned.kind = "return"
               /\ returned.value = ListedCommonStock(ItemsOf(catalog, chain))
               /\ cache_file.exists
               /\ cache_file.content = returned.value

\* Three pages were requested; the ETF, the OTC stock and the warrant of the
\* first two pages are not in the result.
C17_Witness ==
    /\ requests = 3
    /\ returned.kind = "return"
    /\ returned.value = <<"AAA", "BBB", "CCC">>
    /\ Len(ItemsOf(catalog, Followed(catalog, 1))) = 6

\* ------------------------------------------------------------------------
\* C15: in the output no row has a higher RS score than a row above it, the
\* output rows are rows of the passing candidates, and no passing candidate
\* left out of the output has a higher RS score than a row of the output.
\* ------------------------------------------------------------------------
LeftOut == Range(rs_list) \ Range(top_df)

C15_OutputSortedAndCutBelow ==
    pc = "done" =>
        /\ \A a, b \in DOMAIN top_df :
               a < b => top_df[a].RSScore >= top_df[b].RSScore
        /\ Range(top_df) \subseteq Range(rs_list)
        /\ Cardinality(Range(top_df)) = Len(top_df)
        /\ \A out \in LeftOut : \A row \in Range(top_df) :
               out.RSScore <= row.RSScore

\* Three rows of different scores are shown, a row with the lowest shown
\* score is left out and the first appended row is not the best.
C15_Witness ==
    /\ pc = "done"
    /\ Len(top_df) = 3
    /\ top_df[1].RSScore > top_df[3].RSScore
    /\ \E out \in LeftOut : out.RSScore = top_df[3].RSScore
    /\ \E out \in LeftOut : out.RSScore < top_df[3].RSScore
    /\ rs_list[1] \in LeftOut

====
